---- MODULE Spec2Model ----
(***************************************************************************)
(* Model of chatgpt_stats/extract.py: the archive reader                   *)
(* (extract_file_from_zip), the message extractor                          *)
(* (extract_message_details), the batch loop (process_conversations) and   *)
(* the pipeline (process_zip under @logger.catch).                         *)
(*                                                                         *)
(* Python dicts are functions whose DOMAIN is the set of keys present, so  *)
(* d.get(k, default) is Get(d, k, default).  A text is the sequence of its *)
(* characters, so len is Len.  A float quotient a / b is the exact         *)
(* fraction [num |-> a, den |-> b]; rates are integers in a fixed unit.    *)
(***************************************************************************)
EXTENDS Integers, Sequences, FiniteSets, TLC

VARIABLES
    \* process_conversations
    data,          \* the argument: a sequence of conversation dicts
    pc,            \* position in process_conversations
    idx,           \* 1-based position of the for loop over data
    messages,      \* the local of line 146: the last extract_message_details result
    all_messages,  \* the accumulator of line 138
    \* extract_file_from_zip / process_zip
    fs,            \* the file system: path -> content, for the files that exist
    fs0,           \* the file system when process_zip was called
    zip_path,      \* argument: the archive path
    destination,   \* argument: extract_to
    zpc,           \* position in process_zip / extract_file_from_zip
    exc,           \* the exception in flight or caught ("none" when there is none)
    extracted_path,\* value extract_file_from_zip returned ("none" before)
    target,        \* path zip_ref.extract writes to ("none" before)
    failed_in,     \* the step that raised ("none" when none did)
    loaded,        \* the document json.load returned (<<>> before)
    result         \* what process_zip returned to its caller

msgvars == <<data, pc, idx, messages, all_messages>>
zipvars ==
    <<fs, fs0, zip_path, destination, zpc, exc, failed_in, extracted_path, target,
      loaded, result>>
vars == <<msgvars, zipvars>>

-----------------------------------------------------------------------------
(* Bounds *)
MaxTokens == 4   \* nodes plus conversations in a document

-----------------------------------------------------------------------------
(* Python values *)

\* None where a dict is expected
None == [none |-> TRUE]
\* None where a string is expected
NoneStr == "<None>"
\* {}
EmptyDict == <<>>

\* d.get(k, default)
Get(d, k, default) == IF k \in DOMAIN d THEN d[k] ELSE default

\* `not d` for a value that is None or a dict
NotDict(d) == DOMAIN d = {} \/ d = None
\* `not l` for a list
NotList(l) == Len(l) = 0
\* NotStr that lets every value through
NotStrNever(s) == FALSE

\* `not s` for a value that is None or a string
NotStr(s) == s = NoneStr \/ s = ""

\* a / b as an exact fraction
Div(a, b) == [num |-> a, den |-> b]
\* r * q for an integer rate r and a fraction q
Mul(r, q) == [num |-> r * q.num, den |-> q.den]

-----------------------------------------------------------------------------
(* The pricing table imported at line 9 (module pricing). *)
COST_PER_TOKEN ==
    ("gpt-4o" :> [input |-> 1, output |-> 2]) @@
    ("gpt-4" :> [input |-> 3, output |-> 6])

\* line 81
SeedModel == "gpt-4o"

\* line 180 and the default of line 127
CharsPerToken == 4

-----------------------------------------------------------------------------
(* Input documents *)

T4 == <<"t", "e", "x", "t">>
T3 == <<"h", "e", "y">>

UserMeta == [timestamp_ |-> "absolute"]

\* a node without a message key
NodeNoMessage == [id |-> "n0"]
\* "message": null
NodeNullMessage == [id |-> "n1", message |-> None]
\* a message without a content key, declaring a model
NodeNoContent ==
    [id |-> "n2",
     message |-> [id |-> "m2", create_time |-> 2, author |-> [role |-> "assistant"],
                  metadata |-> [model_slug |-> "gpt-4"]]]
\* a message whose content has no parts key
NodeNoParts ==
    [id |-> "n3",
     message |-> [id |-> "m3", create_time |-> 3, author |-> [role |-> "user"],
                  content |-> [content_type |-> "code"]]]
\* a message with empty parts, declaring a model
NodeEmptyParts ==
    [id |-> "n4",
     message |-> [id |-> "m4", create_time |-> 4, author |-> [role |-> "assistant"],
                  content |-> [content_type |-> "text", parts |-> <<>>],
                  metadata |-> [model_slug |-> "o1"]]]
\* a message without an author key
NodeNoAuthor ==
    [id |-> "n5",
     message |-> [id |-> "m5", create_time |-> 5,
                  content |-> [content_type |-> "text", parts |-> <<T4>>]]]
\* a message whose author has no role key
NodeNoRole ==
    [id |-> "n6",
     message |-> [id |-> "m6", create_time |-> 6, author |-> [name |-> "x"],
                  content |-> [content_type |-> "text", parts |-> <<T4>>],
                  metadata |-> UserMeta]]
\* a user message without metadata
NodeUser ==
    [id |-> "n7",
     message |-> [id |-> "m7", create_time |-> 7, author |-> [role |-> "user"],
                  content |-> [content_type |-> "text", parts |-> <<T4 \o T4>>]]]
\* a user message without id and create_time, with two parts
NodeUserBare ==
    [id |-> "n8",
     message |-> [author |-> [role |-> "user"],
                  content |-> [content_type |-> "text", parts |-> <<T3, T4>>],
                  metadata |-> UserMeta]]
\* an assistant message declaring a priced model
NodeAssistant4 ==
    [id |-> "n9",
     message |-> [id |-> "m9", create_time |-> 9, author |-> [role |-> "assistant"],
                  content |-> [content_type |-> "text", parts |-> <<T4 \o T4 \o T4>>],
                  metadata |-> [model_slug |-> "gpt-4"]]]
\* an assistant message declaring a model the pricing table does not have
NodeAssistantO1 ==
    [id |-> "n10",
     message |-> [id |-> "m10", create_time |-> 10, author |-> [role |-> "assistant"],
                  content |-> [content_type |-> "text", parts |-> <<T4>>],
                  metadata |-> [model_slug |-> "o1"]]]
\* a tool message without a declared model
NodeTool ==
    [id |-> "n11",
     message |-> [id |-> "m11", create_time |-> 11, author |-> [role |-> "tool"],
                  content |-> [content_type |-> "text", parts |-> <<T4 \o T3>>],
                  metadata |-> UserMeta]]

\* the nodes a mapping can hold, by node id
Nodes ==
    ("n0" :> NodeNoMessage) @@ ("n1" :> NodeNullMessage) @@ ("n2" :> NodeNoContent) @@
    ("n3" :> NodeNoParts) @@ ("n4" :> NodeEmptyParts) @@ ("n5" :> NodeNoAuthor) @@
    ("n6" :> NodeNoRole) @@ ("n7" :> NodeUser) @@ ("n8" :> NodeUserBare) @@
    ("n9" :> NodeAssistant4) @@ ("n10" :> NodeAssistantO1) @@ ("n11" :> NodeTool)

\* mapping.values(): a mapping is held as its keys in insertion order
Values(mapping) == [i \in 1..Len(mapping) |-> Nodes[mapping[i]]]

ConvId(k) == <<"c1", "c2", "c3", "c4", "c5", "c6", "c7", "c8">>[k]

\* A document is written as a sequence of tokens: a node id adds that node to
\* the mapping of the conversation being written, "end" closes the
\* conversation, "bare" is a conversation with neither an id nor a mapping key.
Tokens == DOMAIN Nodes \cup {"end", "bare"}

RECURSIVE Parse(_, _, _)
Parse(tokens, pending, k) ==
    IF tokens = <<>> THEN <<>>
    ELSE LET t == Head(tokens) IN
         IF t = "end"
         THEN <<[id |-> ConvId(k + 1), mapping |-> pending]>>
              \o Parse(Tail(tokens), <<>>, k + 1)
         ELSE IF t = "bare"
         THEN <<[title |-> "untitled"]>> \o Parse(Tail(tokens), <<>>, k + 1)
         ELSE Parse(Tail(tokens), Append(pending, t), k)

WellFormed(tokens) ==
    /\ Len(tokens) > 0 => tokens[Len(tokens)] \in {"end", "bare"}
    /\ \A i \in 1..Len(tokens) :
          tokens[i] = "bare" =>
              IF i = 1 THEN TRUE ELSE tokens[i - 1] \in {"end", "bare"}

-----------------------------------------------------------------------------
(* extract_message_details *)

\* line 116
RoleField(role, model) ==
    IF role = "assistant" THEN <<role, ":", model>> ELSE <<role>>

\* Cost with the two rates exchanged
CostSwapped(pricing, role, num_tokens) ==
    IF role = "user" THEN Mul(pricing["output"], num_tokens)
    ELSE Mul(pricing["input"], num_tokens)

\* lines 104-108
Cost(pricing, role, num_tokens) ==
    IF role = "user" THEN Mul(pricing["input"], num_tokens)
    ELSE Mul(pricing["output"], num_tokens)

\* ResolveModel falling back to the seed instead of the running model
ResolveModelSeed(metadata, model) == Get(metadata, "model_slug", "gpt-4o")

\* line 98
ResolveModel(metadata, model) == Get(metadata, "model_slug", model)

\* line 99
Pricing(cost_per_token, model) ==
    Get(cost_per_token, model, [input |-> 0, output |-> 0])

\* lines 111-122
Record(conversation, message, role, content, model, chars_per_token, cost_per_token) ==
    LET num_tokens == Div(Len(content[1]), chars_per_token)
    IN  [conv_id     |-> Get(conversation, "id", "unknown_id"),
         msg_id      |-> Get(message, "id", "unknown_msg_id"),
         create_time |-> Get(message, "create_time", 0),
         role        |-> RoleField(role, model),
         content     |-> content[1],
         num_tokens  |-> num_tokens,
         model       |-> model,
         cost        |-> Cost(Pricing(cost_per_token, model), role, num_tokens)]

\* `break` in the place of `continue`
Break(nodes) == <<>>

\* `continue`: the nodes the loop still visits after skipping the head
Continue(nodes) == Tail(nodes)

\* the for loop of lines 82-122 over the remaining nodes, with the running model
RECURSIVE Walk(_, _, _, _, _)
Walk(nodes, conversation, model, chars_per_token, cost_per_token) ==
    IF nodes = <<>> THEN <<>>
    ELSE
      LET node    == Head(nodes)
          message == Get(node, "message", None)
      IN
      IF NotDict(message)
      THEN Walk(Continue(nodes), conversation, model, chars_per_token, cost_per_token)
      ELSE
      LET content == Get(Get(message, "content", EmptyDict), "parts", <<>>) IN
      IF NotList(content)
      THEN Walk(Continue(nodes), conversation, model, chars_per_token, cost_per_token)
      ELSE
      LET role == Get(Get(message, "author", EmptyDict), "role", NoneStr) IN
      IF NotStr(role)
      THEN Walk(Continue(nodes), conversation, model, chars_per_token, cost_per_token)
      ELSE
      LET metadata == Get(message, "metadata", EmptyDict)
          model2   == ResolveModel(metadata, model)
      IN  <<Record(conversation, message, role, content, model2,
                   chars_per_token, cost_per_token)>>
          \o Walk(Tail(nodes), conversation, model2, chars_per_token, cost_per_token)

\* lines 76-124
extract_message_details(conversation, chars_per_token, cost_per_token) ==
    Walk(Values(Get(conversation, "mapping", <<>>)), conversation, SeedModel,
         chars_per_token, cost_per_token)

-----------------------------------------------------------------------------
(* process_conversations *)

\* assignment in the place of extend
Assign(all, msgs) == msgs

\* line 147
Extend(all, msgs) == all \o msgs

\* lines 141-147, one iteration of the loop
ProcessConversation ==
    /\ pc = "loop"
    /\ idx <= Len(data)
    /\ messages' = extract_message_details(data[idx], CharsPerToken, COST_PER_TOKEN)
    /\ all_messages' = Extend(all_messages, messages')
    /\ idx' = idx + 1
    /\ UNCHANGED <<data, pc, zipvars>>

\* lines 149-152
Return ==
    /\ pc = "loop"
    /\ idx > Len(data)
    /\ pc' = "done"
    /\ UNCHANGED <<data, idx, messages, all_messages, zipvars>>

\* the whole call, as process_zip uses it at line 183
RECURSIVE process_conversations(_, _)
process_conversations(d, chars_per_token) ==
    IF d = <<>> THEN <<>>
    ELSE Extend(process_conversations(SubSeq(d, 1, Len(d) - 1), chars_per_token),
                extract_message_details(d[Len(d)], chars_per_token, COST_PER_TOKEN))

-----------------------------------------------------------------------------
(* The file system *)

\* file contents: a text file, a ZIP archive (entry name -> text), or a file
\* whose writing stopped part-way
File(text) == [kind |-> "file", text |-> text]
Archive(entries) == [kind |-> "zip", entries |-> entries]
Partial(text) == [kind |-> "partial", text |-> text]

\* line 161: the entry process_zip asks for
EntryName == "conversations.json"

ZipFilePath == "/home/u/export.zip"
\* os.getcwd() joined with the entry name: where zip_ref.extract(name) writes
CwdEntry == "./conversations.json"
\* a destination that is a file path outside the working directory
DestFile == "/data/out.json"
\* a destination that is an existing directory, and the entry inside it
DestDir == "/data/dir"
DirEntry == "/data/dir/conversations.json"
OtherFile == "./notes.txt"
Dirs == {DestDir}

\* the texts that decode as JSON, with the document each decodes to
JsonDocs ==
    ("doc_a" :> Parse(<<"n9", "n7", "end", "n0", "n8", "end">>, <<>>, 0)) @@
    ("doc_b" :> Parse(<<>>, <<>>, 0))

Write(f, path, content) ==
    [p \in DOMAIN f \cup {path} |-> IF p = path THEN content ELSE f[p]]
Remove(f, path) == [p \in DOMAIN f \ {path} |-> f[p]]

-----------------------------------------------------------------------------
(* extract_file_from_zip *)

\* line 31: zip_path.exists()
Exists(f, path) == path \in DOMAIN f

\* line 46: destination.is_dir()
IsDir(path) == path \in Dirs

\* the check of line 37 left out
InNamelistUnchecked(archive, name) == TRUE

\* line 37: file_to_extract in zip_ref.namelist()
InNamelist(archive, name) == name \in DOMAIN archive.entries

\* shutil.copy in the place of shutil.move: the source stays
CopyOnly(f, src, dst) == Write(f, dst, f[src])

\* line 54, shutil.move on one file system: os.rename(src, dst)
Rename(f, src, dst) ==
    IF src = dst THEN f ELSE Remove(Write(f, dst, f[src]), src)

\* where zip_ref.extract writes: lines 48 and 52
ExtractTarget(dest) == IF IsDir(dest) THEN DirEntry ELSE CwdEntry

Raise(step, e) ==
    /\ exc' = e
    /\ failed_in' = step
    /\ zpc' = "efz_raised"

\* lines 31-33
CheckZipExists ==
    /\ zpc = "call"
    /\ IF Exists(fs, zip_path)
       THEN zpc' = "open" /\ UNCHANGED <<exc, failed_in>>
       ELSE Raise("exists", "FileNotFoundError")
    /\ UNCHANGED <<fs, fs0, zip_path, destination, extracted_path, target, loaded,
                   result, msgvars>>

\* line 35: zipfile.ZipFile(zip_path, "r")
OpenZip ==
    /\ zpc = "open"
    /\ IF fs[zip_path].kind = "zip"
       THEN zpc' = "namelist" /\ UNCHANGED <<exc, failed_in>>
       ELSE Raise("open", "BadZipFile")
    /\ UNCHANGED <<fs, fs0, zip_path, destination, extracted_path, target, loaded,
                   result, msgvars>>

\* lines 37-43
CheckEntry ==
    /\ zpc = "namelist"
    /\ IF InNamelist(fs[zip_path], EntryName)
       THEN zpc' = "extract" /\ UNCHANGED <<exc, failed_in>>
       ELSE Raise("namelist", "FileNotFoundError")
    /\ UNCHANGED <<fs, fs0, zip_path, destination, extracted_path, target, loaded,
                   result, msgvars>>

\* lines 46-52: zip_ref.extract looks the entry up (KeyError for a name the
\* archive lacks) and opens its target for writing
BeginExtract ==
    /\ zpc = "extract"
    /\ IF EntryName \in DOMAIN fs[zip_path].entries
       THEN /\ target' = ExtractTarget(destination)
            /\ fs' = Write(fs, target', Partial(fs[zip_path].entries[EntryName]))
            /\ zpc' = "extracting"
            /\ UNCHANGED <<exc, failed_in>>
       ELSE /\ Raise("extract", "KeyError")
            /\ UNCHANGED <<fs, target>>
    /\ UNCHANGED <<fs0, zip_path, destination, extracted_path, loaded, result, msgvars>>

\* lines 48 and 52: zip_ref.extract writes the whole entry
FinishExtract ==
    /\ zpc = "extracting"
    /\ fs' = Write(fs, target, File(fs[zip_path].entries[EntryName]))
    /\ IF IsDir(destination)
       THEN zpc' = "efz_return" /\ extracted_path' = target
       ELSE zpc' = "move" /\ UNCHANGED extracted_path
    /\ UNCHANGED <<fs0, zip_path, destination, exc, failed_in, target, loaded, result,
                   msgvars>>

\* lines 48 and 52: the write fails part-way (disk full, I/O error)
FailExtract ==
    /\ zpc = "extracting"
    /\ Raise("extract", "OSError")
    /\ UNCHANGED <<fs, fs0, zip_path, destination, extracted_path, target, loaded,
                   result, msgvars>>

\* lines 53-57: shutil.move by os.rename
MoveRename ==
    /\ zpc = "move"
    /\ fs' = Rename(fs, target, destination)
    /\ extracted_path' = destination
    /\ zpc' = "efz_return"
    /\ UNCHANGED <<fs0, zip_path, destination, exc, failed_in, target, loaded, result,
                   msgvars>>

\* line 54: shutil.move across file systems copies to the destination first
MoveCopyBegin ==
    /\ zpc = "move"
    /\ target # destination
    /\ fs' = Write(fs, destination, Partial(fs[target].text))
    /\ zpc' = "copying"
    /\ UNCHANGED <<fs0, zip_path, destination, exc, failed_in, extracted_path, target,
                   loaded, result, msgvars>>

\* lines 54-57: the copy completes and the source is unlinked
MoveCopyFinish ==
    /\ zpc = "copying"
    /\ fs' = Remove(Write(fs, destination, fs[target]), target)
    /\ extracted_path' = destination
    /\ zpc' = "efz_return"
    /\ UNCHANGED <<fs0, zip_path, destination, exc, failed_in, target, loaded, result,
                   msgvars>>

\* line 54: shutil.move fails (no such directory, no permission, disk full)
MoveFails ==
    /\ zpc \in {"move", "copying"}
    /\ Raise("move", "OSError")
    /\ UNCHANGED <<fs, fs0, zip_path, destination, extracted_path, target, loaded,
                   result, msgvars>>

-----------------------------------------------------------------------------
(* process_zip *)

\* lines 163-165: log and re-raise
ExceptExtract ==
    /\ zpc = "efz_raised"
    /\ zpc' = "pz_raised"
    /\ UNCHANGED <<fs, fs0, zip_path, destination, exc, failed_in, extracted_path,
                   target, loaded, result, msgvars>>

\* lines 170-174: json.load(extracted_path.open("r")); on failure log and re-raise
LoadJson ==
    /\ zpc = "efz_return"
    /\ LET content == fs[extracted_path] IN
       IF content.kind = "file" /\ content.text \in DOMAIN JsonDocs
       THEN /\ loaded' = JsonDocs[content.text]
            /\ zpc' = "process"
            /\ UNCHANGED <<exc, failed_in>>
       ELSE /\ exc' = "JSONDecodeError"
            /\ failed_in' = "load"
            /\ zpc' = "pz_raised"
            /\ UNCHANGED loaded
    /\ UNCHANGED <<fs, fs0, zip_path, destination, extracted_path, target, result,
                   msgvars>>

\* lines 179-186
ProcessAndReturn ==
    /\ zpc = "process"
    /\ result' = [kind |-> "list",
                  value |-> process_conversations(loaded, CharsPerToken)]
    /\ zpc' = "returned"
    /\ UNCHANGED <<fs, fs0, zip_path, destination, exc, failed_in, extracted_path,
                   target, loaded, msgvars>>

\* line 155: @logger.catch with its defaults (reraise=False, default=None)
\* logs the exception that leaves the function body and returns None
LoggerCatch ==
    /\ zpc = "pz_raised"
    /\ result' = [kind |-> "None", value |-> <<>>]
    /\ zpc' = "returned"
    /\ UNCHANGED <<fs, fs0, zip_path, destination, exc, failed_in, extracted_path,
                   target, loaded, msgvars>>

-----------------------------------------------------------------------------
ZipIdle ==
    /\ fs = <<>> /\ fs0 = <<>> /\ zip_path = "none" /\ destination = "none"
    /\ zpc = "idle" /\ exc = "none" /\ failed_in = "none"
    /\ extracted_path = "none" /\ target = "none"
    /\ loaded = <<>> /\ result = [kind |-> "pending", value |-> <<>>]

MsgIdle ==
    /\ data = <<>> /\ pc = "idle" /\ idx = 1 /\ messages = <<>> /\ all_messages = <<>>

Init ==
    /\ \E n \in 0..MaxTokens : \E tokens \in [1..n -> Tokens] :
          WellFormed(tokens) /\ data = Parse(tokens, <<>>, 0)
    /\ pc = "loop"
    /\ idx = 1
    /\ messages = <<>>
    /\ all_messages = <<>>
    /\ ZipIdle

Next == ProcessConversation \/ Return

Spec == Init /\ [][Next]_vars

\* what the archive path can hold when process_zip is called
ZipContents ==
    {Archive(EntryName :> "doc_a"), Archive(EntryName :> "doc_b"),
     Archive(EntryName :> "not json"), Archive("chat.html" :> "<html>"),
     File("not a zip")}

Optional(present, path, content) == IF present THEN path :> content ELSE <<>>

\* process_zip(zip_path, extract_to) is called on some file system
ZipInit ==
    /\ MsgIdle
    /\ zip_path = ZipFilePath
    /\ destination \in {DestFile, CwdEntry, DestDir}
    /\ \E zipThere \in BOOLEAN, z \in ZipContents,
          destThere \in BOOLEAN, cwdThere \in BOOLEAN, dirThere \in BOOLEAN :
          fs = (OtherFile :> File("notes"))
               @@ Optional(zipThere, ZipFilePath, z)
               @@ Optional(destThere, DestFile, File("old out"))
               @@ Optional(cwdThere, CwdEntry, File("old cwd"))
               @@ Optional(dirThere, DirEntry, File("old dir"))
    /\ fs0 = fs
    /\ zpc = "call" /\ exc = "none" /\ failed_in = "none"
    /\ extracted_path = "none" /\ target = "none"
    /\ loaded = <<>> /\ result = [kind |-> "pending", value |-> <<>>]

ZipNext ==
    \/ CheckZipExists \/ OpenZip \/ CheckEntry
    \/ BeginExtract \/ FinishExtract \/ FailExtract
    \/ MoveRename \/ MoveCopyBegin \/ MoveCopyFinish \/ MoveFails
    \/ ExceptExtract \/ LoadJson \/ ProcessAndReturn \/ LoggerCatch

SpecZip == ZipInit /\ [][ZipNext]_vars

-----------------------------------------------------------------------------
(* The claims about the message extractor and the batch loop, stated over   *)
(* the input document without the extractor's own operators.                *)

\* the nodes of a conversation, in insertion order
NodesOf(c) == IF "mapping" \in DOMAIN c THEN Values(c.mapping) ELSE <<>>
HasMessage(n) == "message" \in DOMAIN n /\ n.message # None
PartsOf(n) ==
    IF HasMessage(n) /\ "content" \in DOMAIN n.message
                     /\ "parts" \in DOMAIN n.message.content
    THEN n.message.content.parts ELSE <<>>
HasRole(n) ==
    /\ HasMessage(n)
    /\ "author" \in DOMAIN n.message
    /\ "role" \in DOMAIN n.message.author
\* a node with a message with non-empty content parts and an author role
Qualifies(n) == HasMessage(n) /\ Len(PartsOf(n)) > 0 /\ HasRole(n)
\* a node whose message's metadata declares a model_slug
Declares(n) ==
    /\ HasMessage(n)
    /\ "metadata" \in DOMAIN n.message
    /\ "model_slug" \in DOMAIN n.message.metadata
QualIdx(c) == {i \in 1..Len(NodesOf(c)) : Qualifies(NodesOf(c)[i])}
NumQual(c) == Cardinality(QualIdx(c))
\* the position in the mapping of the k-th qualifying node
KthQual(c, k) ==
    CHOOSE i \in QualIdx(c) : Cardinality({j \in QualIdx(c) : j <= i}) = k
MaxOf(S) == CHOOSE x \in S : \A y \in S : y <= x
\* the model_slug of the last node of D, the seed when D is empty
LastDeclared(c, D) ==
    IF D = {} THEN "gpt-4o" ELSE NodesOf(c)[MaxOf(D)].message.metadata.model_slug
\* the declaring nodes at or before position i
DeclaringUpTo(c, i) == {j \in 1..i : Declares(NodesOf(c)[j])}
\* the declaring nodes at or before position i that produce a record
QualDeclaringUpTo(c, i) == {j \in DeclaringUpTo(c, i) : Qualifies(NodesOf(c)[j])}

\* a conversation has been extracted: messages holds the records of data[idx - 1]
Extracted == idx > 1
Last == data[idx - 1]

\* C1 as stated: every record's model is the model_slug of the most recent
\* message at or before the record's message that declares one, whether or
\* not that message produces a record, and the seed when there is none.
C1_AnyDeclaringMessage ==
    Extracted =>
        /\ Len(messages) = NumQual(Last)
        /\ \A k \in 1..Len(messages) :
             messages[k].model = LastDeclared(Last, DeclaringUpTo(Last, KthQual(Last, k)))

\* C1 amended: every record's model is the model_slug of the most recent
\* message at or before the record's message that produces a record and
\* declares a model_slug, and the seed "gpt-4o" when there is none.
C1_StickyModel ==
    Extracted =>
        /\ Len(messages) = NumQual(Last)
        /\ \A k \in 1..Len(messages) :
             messages[k].model =
                 LastDeclared(Last, QualDeclaringUpTo(Last, KthQual(Last, k)))

\* a record whose own message declares nothing carries the model of an
\* earlier record, with a skipped declaring message in the conversation
C1_Witness ==
    /\ Extracted
    /\ \E k \in 1..Len(messages) :
         /\ k <= NumQual(Last)
         /\ ~Declares(NodesOf(Last)[KthQual(Last, k)])
         /\ messages[k].model # "gpt-4o"
    /\ \E j \in 1..Len(NodesOf(Last)) :
         Declares(NodesOf(Last)[j]) /\ ~Qualifies(NodesOf(Last)[j])

\* C2: a conversation of N nodes, M of them qualifying, yields exactly M
\* records, the k-th being the record of the k-th qualifying node; the
\* other nodes yield nothing.
C2_OneRecordPerQualifyingNode ==
    Extracted =>
        /\ Len(messages) = NumQual(Last)
        /\ \A k \in 1..Len(messages) :
             LET n == NodesOf(Last)[KthQual(Last, k)] IN
             /\ messages[k].content = PartsOf(n)[1]
             /\ messages[k].role[1] = n.message.author.role
             /\ messages[k].msg_id =
                  IF "id" \in DOMAIN n.message THEN n.message.id ELSE "unknown_msg_id"

\* three nodes, the middle one skipped, two records
C2_Witness ==
    /\ Extracted
    /\ Len(NodesOf(Last)) = 3
    /\ QualIdx(Last) = {1, 3}
    /\ Len(messages) = 2

\* the rate the pricing table gives a model for a role, 0 for a model it lacks
Rate(model, role) ==
    IF model \in DOMAIN COST_PER_TOKEN
    THEN IF role = <<"user">> THEN COST_PER_TOKEN[model].input
                              ELSE COST_PER_TOKEN[model].output
    ELSE 0
\* fraction q equals the integer r times fraction t
IsProduct(q, r, t) == q.num * t.den = r * t.num * q.den

\* C3: every record's cost is the input rate of its model times its tokens
\* for role "user" and the output rate times its tokens for any other role,
\* both rates being 0 for a model the pricing table lacks; the tokens are
\* the length of the first part over chars_per_token.
C3_CostIsRateTimesTokens ==
    Extracted =>
        \A k \in 1..Len(messages) :
            LET r == messages[k] IN
            /\ IsProduct(r.num_tokens, 1, [num |-> Len(r.content), den |-> 4])
            /\ IsProduct(r.cost, Rate(r.model, r.role), r.num_tokens)
            /\ r.model \notin DOMAIN COST_PER_TOKEN => r.cost.num = 0

\* a user record priced at the input rate, then a record of a model the
\* table lacks, at cost 0
C3_Witness ==
    /\ Extracted
    /\ Len(messages) = 2
    /\ messages[1].role = <<"user">> /\ messages[1].cost.num > 0
    /\ messages[1].cost.num # 2 * messages[1].num_tokens.num
    /\ messages[2].model \notin DOMAIN COST_PER_TOKEN
    /\ messages[2].cost.num = 0

RECURSIVE ConcatExtracted(_)
ConcatExtracted(d) ==
    IF d = <<>> THEN <<>>
    ELSE ConcatExtracted(SubSeq(d, 1, Len(d) - 1))
         \o extract_message_details(d[Len(d)], 4, COST_PER_TOKEN)
RECURSIVE NumQualUpTo(_)
\* the number of qualifying nodes in the first j conversations
NumQualUpTo(j) == IF j = 0 THEN 0 ELSE NumQualUpTo(j - 1) + NumQual(data[j])

\* C4: process_conversations returns the concatenation, in input order, of
\* what extract_message_details returns for each conversation alone; the
\* model of every record is settled inside its own conversation, from the
\* seed.
C4_ConcatenationOfIndependentRuns ==
    pc = "done" =>
        /\ all_messages = ConcatExtracted(data)
        /\ Len(all_messages) = NumQualUpTo(Len(data))
        /\ \A j \in 1..Len(data) : \A k \in 1..NumQual(data[j]) :
             all_messages[NumQualUpTo(j - 1) + k].model =
                 LastDeclared(data[j], QualDeclaringUpTo(data[j], KthQual(data[j], k)))

\* the first conversation ends on a declared model other than the seed, the
\* second one's first record has the seed
C4_Witness ==
    /\ pc = "done"
    /\ Len(data) = 2
    /\ NumQual(data[1]) > 0 /\ NumQual(data[2]) > 0
    /\ all_messages[NumQual(data[1])].model # "gpt-4o"
    /\ all_messages[NumQual(data[1]) + 1].model = "gpt-4o"

\* a node or message with a field missing
Malformed(n) ==
    \/ ~HasMessage(n)
    \/ \E f \in {"content", "author", "metadata", "id", "create_time"} :
         f \notin DOMAIN n.message
    \/ "parts" \notin DOMAIN n.message.content
    \/ "role" \notin DOMAIN n.message.author

\* C6: with nodes and messages missing fields, the loop returns only after
\* going through every conversation, and what it has accumulated holds one
\* record for every qualifying message of every conversation it went
\* through, whatever malformed nodes lie between them.
C6_MalformedNeverBlocks ==
    /\ Len(all_messages) = NumQualUpTo(idx - 1)
    /\ pc = "done" => idx = Len(data) + 1
    /\ \A j \in 1..(idx - 1) : \A k \in 1..NumQual(data[j]) :
         LET n == NodesOf(data[j])[KthQual(data[j], k)]
             r == all_messages[NumQualUpTo(j - 1) + k]
         IN  r.content = PartsOf(n)[1] /\ r.role[1] = n.message.author.role

\* a conversation with neither id nor mapping, then a malformed node ahead
\* of a qualifying one, all processed
C6_Witness ==
    /\ pc = "done"
    /\ Len(data) = 2
    /\ "mapping" \notin DOMAIN data[1]
    /\ \E i \in 1..Len(NodesOf(data[2])) : \E j \in 1..Len(NodesOf(data[2])) :
         i < j /\ Malformed(NodesOf(data[2])[i]) /\ ~Qualifies(NodesOf(data[2])[i])
               /\ Qualifies(NodesOf(data[2])[j])
    /\ Len(all_messages) = NumQual(data[2])

-----------------------------------------------------------------------------
(* The claims about the archive reader and the pipeline. *)

ZipMissing == zip_path \notin DOMAIN fs0
EntryAbsent ==
    /\ zip_path \in DOMAIN fs0
    /\ fs0[zip_path].kind = "zip"
    /\ EntryName \notin DOMAIN fs0[zip_path].entries
\* the text of the entry in the archive process_zip was called on
EntryText == fs0[zip_path].entries[EntryName]
\* a step of extract_file_from_zip or of json.load has raised
Failed == failed_in \in {"exists", "open", "namelist", "extract", "move", "load"}

\* C5: once the extraction or the JSON decode has failed, process_zip does
\* not return normally, and it processes no conversation.
C5_FailureIsSurfaced ==
    Failed => zpc # "returned" /\ zpc # "process" /\ result.kind = "pending"

\* C7: with the archive path missing, or the entry missing from the
\* archive's listing, extract_file_from_zip raises FileNotFoundError, never
\* starts extracting, and leaves every file as it was.
C7_NotFoundBeforeExtracting ==
    (ZipMissing \/ EntryAbsent) =>
        /\ fs = fs0
        /\ target = "none"
        /\ zpc \in {"call", "open", "namelist", "efz_raised", "pz_raised", "returned"}
        /\ zpc \in {"efz_raised", "pz_raised", "returned"} =>
               exc = "FileNotFoundError" /\ failed_in \in {"exists", "namelist"}
        /\ ZipMissing /\ failed_in # "none" => failed_in = "exists"
        /\ EntryAbsent /\ failed_in # "none" => failed_in = "namelist"

\* extract_file_from_zip has raised for an archive without the entry, with
\* files at the destination and in the working directory
C7_Witness ==
    /\ zpc = "efz_raised"
    /\ EntryAbsent
    /\ exc = "FileNotFoundError"
    /\ destination = DestFile
    /\ {DestFile, CwdEntry} \subseteq DOMAIN fs

\* C8: when extract_file_from_zip returns for a destination that is a file
\* path, the destination holds the entry's content, the returned path is the
\* destination, and the place the entry was first extracted to holds no file
\* other than the destination itself.
C8_FileDestinationHoldsEntry ==
    (zpc = "efz_return" /\ ~IsDir(destination)) =>
        /\ destination \in DOMAIN fs
        /\ fs[destination] = File(EntryText)
        /\ extracted_path = destination
        /\ target # destination => target \notin DOMAIN fs

\* the call has returned for a file destination away from the working
\* directory, replacing an older file there
C8_Witness ==
    /\ zpc = "efz_return"
    /\ destination = DestFile
    /\ DestFile \in DOMAIN fs0
    /\ fs[DestFile] = File(EntryText)
    /\ CwdEntry \notin DOMAIN fs

\* C9: after the extraction to a file-path destination has failed part-way,
\* the destination holds its previous content or nothing.
C9_NoPartialFileAtDestination ==
    (~IsDir(destination) /\ failed_in = "extract") =>
        \/ destination \notin DOMAIN fs
        \/ destination \in DOMAIN fs0 /\ fs[destination] = fs0[destination]

\* C10: a call with a file-path destination, returned or raised, leaves every
\* file that existed before it, other than the destination, in place with
\* its content.
C10_OnlyDestinationChanges ==
    (~IsDir(destination) /\ zpc \in {"efz_return", "efz_raised"}) =>
        \A p \in DOMAIN fs0 \ {destination} : p \in DOMAIN fs /\ fs[p] = fs0[p]

====
